---- MODULE Spec2Model ----
(***************************************************************************)
(* Model of cloudimpl/next-gen: the service generator of lib/service-gen   *)
(* (Record Extractor, Convention Parser, Generation Engine, Service        *)
(* Orchestrator) and the adapter it renders from wrapperTemplate.          *)
(*                                                                         *)
(* Identifiers and dispatch names are sequences of Unicode code points,    *)
(* because the code lower-cases them and inspects their first byte.        *)
(* A syntax tree is what go/parser hands to the code: parameter and result *)
(* lists are lists of fields, and one field carries all the names declared *)
(* with one type.                                                          *)
(***************************************************************************)
EXTENDS Integers, Sequences, FiniteSets, TLC

VARIABLES
    tree,      \* the project on disk: manifest, record files, service entries
    disk,      \* the output directory .polycode: artifacts by service name
    pc,        \* position of GenerateServices: "idle", "loop", "imports"
    run,       \* locals of the run in progress (structDefs, prod, index i)
    last,      \* locals of the last generateService call (parseDir's return)
    result,    \* what the last finished run returned
    log,       \* summary of the finished runs, newest last
    reply,     \* what the last call into a generated adapter returned
    watch      \* the watcher of main.go: pending events, position of its loop

vars == <<tree, disk, pc, run, last, result, log, reply, watch>>

----------------------------------------------------------------------------
(* Bounds *)

\* The declarations of the source file the fine-grained specification builds.
MaxDecls == 2

\* The entries of the services folder.
MaxServices == 2

\* The files of a service directory that SpecWalk draws.
MaxFiles == 2

\* The record declarations of a record file that SpecRecords draws.
MaxRecords == 2

\* The events that wait for the loop of the watcher.
MaxEvents == 2

----------------------------------------------------------------------------
(* Text: code points, UTF-8, unicode.IsLower, strings.ToLower *)

\* Function names are built from the code points D (68), T (84), d (100),
\* t (116), _ (95), e-acute (U+00E9 = 233) and the CJK ideograph U+4E16 (19990).

\* "@definition"
DefinitionName == <<64, 100, 101, 102, 105, 110, 105, 116, 105, 111, 110>>

\* "@Definition"
DefinitionNameMixed == <<64, 68, 101, 102, 105, 110, 105, 116, 105, 111, 110>>

\* The first byte of the UTF-8 encoding of code point c: what s[0] is for a
\* Go string s that starts with c.
Utf8FirstByte(c) ==
    IF c < 128 THEN c
    ELSE IF c < 2048 THEN 192 + (c \div 64)
    ELSE IF c < 65536 THEN 224 + (c \div 4096)
    ELSE 240 + (c \div 262144)

\* unicode.IsLower on a rune below U+0100 (the Latin-1 table), and on the
\* caseless ideograph.
IsLower(r) ==
    \/ r >= 97 /\ r <= 122
    \/ r = 181
    \/ r >= 223 /\ r <= 246
    \/ r >= 248 /\ r <= 255

\* unicode.ToLower on the code points used here.
ToLowerRune(r) ==
    IF r >= 65 /\ r <= 90 THEN r + 32
    ELSE IF r >= 192 /\ r <= 222 /\ r # 215 THEN r + 32
    ELSE r

\* strings.ToLower
ToLower(s) == [k \in 1..Len(s) |-> ToLowerRune(s[k])]

\* unicode.IsLower(rune(OriginalName[0])): the first BYTE of the name, read
\* as a rune.
StartsLowerByte(name) == IsLower(Utf8FirstByte(name[1]))

\* Whether the first character of the name is a lower-case letter.
StartsLowerLetter(name) == IsLower(name[1])

----------------------------------------------------------------------------
(* Syntax trees *)

\* A type expression in a parameter or result position: *ast.StarExpr when
\* star, around an *ast.SelectorExpr pkg.name when sel, or around some
\* other expression (an identifier, a slice type, ...) when not sel.
TypeExpr(star, sel, pkg, name) ==
    [star |-> star, sel |-> sel, pkg |-> pkg, name |-> name]

\* An *ast.Field: n names declared with one type.
Fld(n, t) == [n |-> n, type |-> t]

\* Identifiers, as code points.
IdPolycode == <<112, 111, 108, 121, 99, 111, 100, 101>>
IdOther == <<111, 116, 104, 101, 114>>
IdModel == <<109, 111, 100, 101, 108>>
IdServiceContext == <<83, 101, 114, 118, 105, 99, 101, 67, 111, 110, 116, 101, 120, 116>>
IdWorkflowContext == <<87, 111, 114, 107, 102, 108, 111, 119, 67, 111, 110, 116, 101, 120, 116>>
IdContext == <<67, 111, 110, 116, 101, 120, 116>>
IdReq == <<82, 101, 113>>
IdResp == <<82, 101, 115, 112>>
IdInt == <<105, 110, 116>>
IdError == <<101, 114, 114, 111, 114>>

ServiceContext == TypeExpr(FALSE, TRUE, IdPolycode, IdServiceContext)
WorkflowContext == TypeExpr(FALSE, TRUE, IdPolycode, IdWorkflowContext)
OtherContext == TypeExpr(FALSE, TRUE, IdPolycode, IdContext)
ForeignContext == TypeExpr(FALSE, TRUE, IdOther, IdServiceContext)
PlainContext == TypeExpr(FALSE, FALSE, <<>>, IdContext)

ReqVal == TypeExpr(FALSE, TRUE, IdModel, IdReq)
ReqPtr == TypeExpr(TRUE, TRUE, IdModel, IdReq)
RespVal == TypeExpr(FALSE, TRUE, IdModel, IdResp)
RespPtr == TypeExpr(TRUE, TRUE, IdModel, IdResp)
PlainInt == TypeExpr(FALSE, FALSE, <<>>, IdInt)
PointerInt == TypeExpr(TRUE, FALSE, <<>>, IdInt)
PlainError == TypeExpr(FALSE, FALSE, <<>>, IdError)
PlainString == TypeExpr(FALSE, FALSE, <<>>, <<115, 116, 114, 105, 110, 103>>)
PlainBool == TypeExpr(FALSE, FALSE, <<>>, <<98, 111, 111, 108>>)
PlainBase == TypeExpr(FALSE, FALSE, <<>>, <<66, 97, 115, 101>>)

\* An *ast.FuncDecl: results is the empty list when the function declares
\* no result (fn.Type.Results is nil).
FuncDecl(name, recv, params, results) ==
    [name |-> name, recv |-> recv, params |-> params, results |-> results]

NameDT == <<68, 84>>
NameDt == <<68, 116>>
Namedt == <<100, 116>>
NameUnderscoreD == <<95, 68>>
NameEacute == <<233, 116>>
NameShi == <<19990>>

\* The number of parameters a field list declares (a field without names
\* declares one).
RECURSIVE NumParams(_)
NumParams(fields) ==
    IF fields = <<>> THEN 0
    ELSE (IF Head(fields).n = 0 THEN 1 ELSE Head(fields).n) + NumParams(Tail(fields))

\* The type of the k-th parameter of a field list, k in 1..NumParams.
RECURSIVE ParamType(_, _)
ParamType(fields, k) ==
    LET w == IF Head(fields).n = 0 THEN 1 ELSE Head(fields).n
    IN  IF k <= w THEN Head(fields).type ELSE ParamType(Tail(fields), k - w)

\* Functions that follow the convention.
ConventionDecls ==
    { FuncDecl(NameDT, FALSE, <<Fld(1, c), Fld(1, in)>>, <<Fld(0, RespVal)>>) :
        c \in {ServiceContext, WorkflowContext}, in \in {ReqPtr, ReqVal} }
    \cup { FuncDecl(NameDt, FALSE, <<Fld(1, ServiceContext), Fld(1, ReqVal)>>,
                    <<Fld(0, RespVal)>>),
           FuncDecl(NameDt, FALSE, <<Fld(1, WorkflowContext), Fld(1, ReqPtr)>>,
                    <<Fld(0, RespVal)>>),
           FuncDecl(NameUnderscoreD, FALSE, <<Fld(0, WorkflowContext), Fld(0, ReqVal)>>,
                    <<Fld(0, RespPtr), Fld(0, PlainError)>>) }

\* Functions the parser is to leave alone: dt(), e-acute t(), U+4E16(), and
\* a method DT() with a receiver.
IgnoredDecls ==
    { FuncDecl(nm, FALSE, <<>>, <<>>) : nm \in {Namedt, NameEacute, NameShi} }
    \cup { FuncDecl(NameDT, TRUE, <<>>, <<>>) }

\* Functions with a first parameter that is no context, or with too few
\* entries in the parameter list.
InvalidDecls ==
    { FuncDecl(NameDT, FALSE, ps, <<Fld(0, RespVal)>>) :
        ps \in { <<>>, <<Fld(1, ServiceContext)>>, <<Fld(2, ServiceContext)>>,
                 <<Fld(1, OtherContext), Fld(1, ReqVal)>>,
                 <<Fld(1, ForeignContext), Fld(1, ReqVal)>>,
                 <<Fld(1, PlainContext), Fld(1, ReqVal)>> } }

\* Functions with a valid context whose input or output has another shape.
MismatchDecls ==
    { FuncDecl(NameDT, FALSE, <<Fld(1, ServiceContext), Fld(1, in)>>, <<Fld(0, RespVal)>>) :
        in \in {PlainInt, PointerInt} }
    \cup { FuncDecl(NameDT, FALSE, <<Fld(1, ServiceContext), Fld(1, ReqPtr)>>, rs) :
        rs \in { <<>>, <<Fld(0, PlainError)>> } }

\* A function whose first two parameters share one field of the list:
\* func DT(ctx, x polycode.ServiceContext, y *model.Req) model.Resp
GroupedDecls ==
    { FuncDecl(NameDT, FALSE, <<Fld(2, ServiceContext), Fld(1, ReqPtr)>>,
               <<Fld(0, RespVal)>>) }

FuncDecls ==
    ConventionDecls \cup IgnoredDecls \cup InvalidDecls \cup MismatchDecls
        \cup GroupedDecls

----------------------------------------------------------------------------
(* Record Extractor *)

\* A record file under the project root, as extractStructs meets it:
\* whether go/parser accepts it, and its record type declarations in
\* order.  A record field carries its names (none when embedded) and its
\* type expression.
RecordField(names, type) == [names |-> names, type |-> type]
RecordDecl(name, fields) == [name |-> name, fields |-> fields]
RecordFile(parsable, decls) == [parsable |-> parsable, decls |-> decls]

\* The place of a token in its file, as fmt prints a token.Pos: an integer,
\* written here as "#".
PosText == <<35>>

\* The address of a syntax node, as fmt prints a pointer inside a struct: a
\* hexadecimal number, written here as "0x".
AddrText == <<48, 120>>

\* fmt.Sprint(field.Type): an *ast.Ident prints its name through its String
\* method; any other expression prints as the pointer to a struct it is,
\* "&{" fields "}", a SelectorExpr as "&{pkg Name}" and a StarExpr as
\* "&{pos X}", where X prints as its name when it is an identifier and as
\* its address otherwise.
Sprint(t) ==
    IF t.star
    THEN <<38, 123>> \o PosText \o <<32>> \o (IF t.sel THEN AddrText ELSE t.name)
            \o <<125>>
    ELSE IF t.sel THEN <<38, 123>> \o t.pkg \o <<32>> \o t.name \o <<125>>
    ELSE t.name

\* Field{Name: field.Names[0].Name, Type: fmt.Sprint(field.Type)} for every
\* field with a name.
RECURSIVE NamedFields(_)
NamedFields(fields) ==
    IF fields = <<>> THEN <<>>
    ELSE IF Len(Head(fields).names) > 0
         THEN <<[Name |-> Head(fields).names[1], Type |-> Sprint(Head(fields).type)]>>
                  \o NamedFields(Tail(fields))
         ELSE NamedFields(Tail(fields))

\* structDefs[typeSpec.Name.Name] = fields, for the declarations of one file.
RECURSIVE PutRecords(_, _)
PutRecords(defs, decls) ==
    IF decls = <<>> THEN defs
    ELSE LET d == Head(decls)
             put == [k \in DOMAIN defs \cup {d.name} |->
                        IF k = d.name THEN NamedFields(d.fields) ELSE defs[k]]
         IN  PutRecords(put, Tail(decls))

\* The walk of extractStructs over files in walk order; a file go/parser
\* rejects is passed over.
RECURSIVE WalkRecords(_, _)
WalkRecords(defs, files) ==
    IF files = <<>> THEN defs
    ELSE IF ~Head(files).parsable THEN WalkRecords(defs, Tail(files))
    ELSE WalkRecords(PutRecords(defs, Head(files).decls), Tail(files))

\* The empty map: make(map[string][]Field).
NoRecords == [k \in {} |-> <<>>]

\* structDefs[key]: the field list stored under key, nil when there is none.
MapGet(defs, key) == IF key \in DOMAIN defs THEN defs[key] ELSE <<>>

----------------------------------------------------------------------------
(* Convention Parser *)

\* An error value: its kind and the function its message names.
NoError == [kind |-> "none", fn |-> <<>>]
Error(kind, fn) == [kind |-> kind, fn |-> fn]

\* validateFunctionParams: the context kind, or an error naming fn.
ValidateFunctionParams(fn) ==
    IF Len(fn.params) < 2
    THEN [ctx |-> "", err |-> Error("not enough parameters", fn.name)]
    ELSE LET first == fn.params[1].type
         IN  IF ~first.star /\ first.sel /\ first.pkg = IdPolycode
                    /\ first.name = IdServiceContext
             THEN [ctx |-> "Service", err |-> NoError]
             ELSE IF ~first.star /\ first.sel /\ first.pkg = IdPolycode
                    /\ first.name = IdWorkflowContext
             THEN [ctx |-> "Workflow", err |-> NoError]
             ELSE [ctx |-> "", err |-> Error("first parameter", fn.name)]

\* fmt.Sprintf("%s.%s", X.Name, Sel.Name)
QualifiedName(t) == t.pkg \o <<46>> \o t.name

\* The type name and pointer flag parseDir resolves from a type expression:
\* a StarExpr sets the flag whatever it points to, and the name stays empty
\* unless a SelectorExpr is found.
ResolveType(t) ==
    [name |-> IF t.sel THEN QualifiedName(t) ELSE <<>>, pointer |-> t.star]

\* Whether parseDir passes over a declaration without looking at it: it has
\* a receiver, or the first byte of its name is lower-case.
Skipped(fn) == fn.recv \/ StartsLowerByte(fn.name)

\* The entry of the parameter list the input is resolved from.
InputField(fn) == fn.params[2]

\* InputSchema: structDefs[inputType], OutputSchema: structDefs[outputType].
SchemaOf(structDefs, typeName) == MapGet(structDefs, typeName)

\* methodName := strings.ToLower(fn.Name.Name)
MethodName(name) == ToLower(name)

\* The MethodInfo parseDir appends.
MethodInfo(fn, ctx, in, out, structDefs) ==
    [OriginalName |-> fn.name,
     Name |-> MethodName(fn.name),
     InputType |-> in.name,
     IsInputPointer |-> in.pointer,
     InputSchema |-> SchemaOf(structDefs, in.name),
     OutputType |-> out.name,
     IsOutputPointer |-> out.pointer,
     OutputSchema |-> SchemaOf(structDefs, out.name),
     IsWorkflow |-> ctx = "Workflow",
     IsService |-> ctx = "Service"]

\* if inputType != "" && outputType != ""
Retained(in, out) == in.name # <<>> /\ out.name # <<>>

\* One declaration of a file, in the body of parseDir's loop.  kind is
\* "skip" (continue), "error" (return err), "panic" (fn.Type.Results is nil
\* and is dereferenced), "drop" (not appended) or "method" (appended).
ParseDecl(fn, structDefs) ==
    IF Skipped(fn) THEN [kind |-> "skip", err |-> NoError, method |-> <<>>]
    ELSE LET v == ValidateFunctionParams(fn)
         IN  IF v.err # NoError THEN [kind |-> "error", err |-> v.err, method |-> <<>>]
             ELSE IF fn.results = <<>>
             THEN [kind |-> "panic", err |-> Error("panic", fn.name), method |-> <<>>]
             ELSE LET in == ResolveType(InputField(fn).type)
                      out == ResolveType(fn.results[1].type)
                  IN  IF Retained(in, out)
                      THEN [kind |-> "method", err |-> NoError,
                            method |-> <<MethodInfo(fn, v.ctx, in, out, structDefs)>>]
                      ELSE [kind |-> "drop", err |-> NoError, method |-> <<>>]

\* The declarations of one file in order, stopping at the first error.
RECURSIVE ParseDecls(_, _, _)
ParseDecls(decls, methods, structDefs) ==
    IF decls = <<>> THEN [methods |-> methods, err |-> NoError]
    ELSE LET d == ParseDecl(Head(decls), structDefs)
         IN  IF d.kind \in {"error", "panic"} THEN [methods |-> methods, err |-> d.err]
             ELSE ParseDecls(Tail(decls), methods \o d.method, structDefs)

\* A source file of a service directory.  kind is "go", "test" (name ends in
\* _test.go) or "other".
SourceFile(kind, parsable, imports, decls) ==
    [kind |-> kind, parsable |-> parsable, imports |-> imports, decls |-> decls]

\* The walk of parseDir over the files of a service directory in walk order.
RECURSIVE ParseFiles(_, _, _, _)
ParseFiles(files, methods, imports, structDefs) ==
    IF files = <<>> THEN [methods |-> methods, imports |-> imports, err |-> NoError]
    ELSE LET f == Head(files)
         IN  IF f.kind # "go"
             THEN ParseFiles(Tail(files), methods, imports, structDefs)
             ELSE IF ~f.parsable
             THEN [methods |-> <<>>, imports |-> <<>>, err |-> Error("syntax", <<>>)]
             ELSE LET r == ParseDecls(f.decls, methods, structDefs)
                  IN  IF r.err # NoError
                      THEN [methods |-> <<>>, imports |-> <<>>, err |-> r.err]
                      ELSE ParseFiles(Tail(files), r.methods, imports \o f.imports,
                                      structDefs)

\* A parseDir that would return the imports as collected.
KeepAll(strs) == strs

\* unique: the first occurrence of every string, in order.
RECURSIVE Unique(_)
Unique(strs) ==
    IF strs = <<>> THEN <<>>
    ELSE LET init == Unique(SubSeq(strs, 1, Len(strs) - 1))
             x == strs[Len(strs)]
         IN  IF \E k \in 1..Len(init) : init[k] = x THEN init ELSE Append(init, x)

\* var methods []MethodInfo: the list parseDir starts from is nil, whatever
\* an earlier call returned.
InitialMethods == <<>>

\* parseDir: (methods, imports, err).  methods is nil (the empty list) when
\* nothing was appended.
ParseDir(files, structDefs) ==
    LET r == ParseFiles(files, InitialMethods, <<>>, structDefs)
    IN  IF r.err # NoError THEN r
        ELSE [methods |-> r.methods, imports |-> Unique(r.imports), err |-> NoError]

----------------------------------------------------------------------------
(* Generation Engine *)

\* strings.ToUpper on one character of a service name.
ToUpperRune(r) == IF r >= 97 /\ r <= 122 THEN r - 32 ELSE r

\* toPascalCase: the words between hyphens (45), each with its first
\* character upper-cased, joined.
RECURSIVE ToPascalCase(_, _)
ToPascalCase(input, atStart) ==
    IF input = <<>> THEN <<>>
    ELSE IF Head(input) = 45 THEN ToPascalCase(Tail(input), TRUE)
    ELSE <<IF atStart THEN ToUpperRune(Head(input)) ELSE Head(input)>>
             \o ToPascalCase(Tail(input), FALSE)

\* The ServiceInfo generateService builds.
ServiceInfo(moduleName, serviceName, methods, imports, prod) ==
    [ModuleName |-> moduleName,
     ServiceName |-> serviceName,
     ServiceStructName |-> ToPascalCase(serviceName, TRUE),
     Methods |-> methods,
     IsProduction |-> prod,
     Imports |-> imports]

\* A file of the output directory: absent, or holding one text.  The text
\* of an adapter is the template rendered from info, as written (formatted
\* FALSE) or as goimports left it (formatted TRUE); the text of a
\* definition is the YAML of info.
Absent == <<>>
FileOf(info, formatted) == <<[info |-> info, formatted |-> formatted]>>

\* generateServiceCode: the adapter's text as rendered.
AdapterFile(info) == FileOf(info, FALSE)

\* yaml.Marshal(serviceInfo): the definition's text.
DefinitionFile(info) == FileOf(info, FALSE)

\* A write that would open the file for appending instead.
AppendFile(old, text) == old \o text

\* os.WriteFile: the file is truncated and then holds the text written.
WriteFile(old, text) == text

\* A template that would give every method a case in every operation.
AllCases(methods, op) == methods

\* {{range .Methods}}{{if ...}}case "{{.Name}}": the methods that get a case
\* in the switch of an operation, in template order.
RECURSIVE CasesOf(_, _)
CasesOf(methods, op) ==
    IF methods = <<>> THEN <<>>
    ELSE LET m == Head(methods)
             has == \/ op = "GetInputType"
                    \/ op = "ExecuteService" /\ m.IsService
                    \/ op \in {"ExecuteWorkflow", "IsWorkflow"} /\ m.IsWorkflow
         IN  (IF has THEN <<m>> ELSE <<>>) \o CasesOf(Tail(methods), op)

\* A switch that would take the last case that equals the tag.
RECURSIVE LastCase(_, _, _)
LastCase(cases, tag, k) ==
    IF k > Len(cases) THEN 0
    ELSE LET later == LastCase(cases, tag, k + 1)
         IN  IF later # 0 THEN later
             ELSE IF cases[k].Name = tag THEN k
             ELSE 0

\* The case a Go switch takes: the first one, top to bottom, that equals
\* the tag; 0 when none does (default).
RECURSIVE FirstCase(_, _, _)
FirstCase(cases, tag, k) ==
    IF k > Len(cases) THEN 0
    ELSE IF cases[k].Name = tag THEN k
    ELSE FirstCase(cases, tag, k + 1)

\* Whether a switch of the adapter holds the same constant in two cases,
\* which the Go compiler may refuse (and gc does).
DuplicateCase(info) ==
    \E op \in {"GetInputType", "ExecuteService", "ExecuteWorkflow"} :
        LET cs == CasesOf(info.Methods, op)
        IN  \E a, b \in 1..Len(cs) : a < b /\ cs[a].Name = cs[b].Name

\* What a call returns.
Return(kind, fn, type, pointer, names, value) ==
    [kind |-> kind, fn |-> fn, type |-> type, pointer |-> pointer,
     names |-> names, value |-> value]

NotFound == Return("method not found", <<>>, <<>>, FALSE, <<>>, FALSE)

\* A template that would list {{.Name}} instead.
RECURSIVE NormalizedNames(_)
NormalizedNames(methods) ==
    IF methods = <<>> THEN <<>>
    ELSE <<Head(methods).Name>> \o NormalizedNames(Tail(methods))

\* {{range .Methods}}"{{.OriginalName}}",{{end}}
RECURSIVE OriginalNames(_)
OriginalNames(methods) ==
    IF methods = <<>> THEN <<>>
    ELSE <<Head(methods).OriginalName>> \o OriginalNames(Tail(methods))

\* The introspection branch of ExecuteService, rendered when IsProduction.
AnswersDefinition(info, method) == info.IsProduction /\ method = DefinitionName

\* An operation that would switch on the name as it was passed.
AsPassed(name) == name

\* method = strings.ToLower(method), the first statement of every operation.
Normalize(name) == ToLower(name)

\* The generated operations, on the adapter rendered from info:
\* GetInputType, ExecuteService, ExecuteWorkflow, IsWorkflow.
Dispatch(info, op, name) ==
    LET method == Normalize(name)
        cases == CasesOf(info.Methods, op)
        k == FirstCase(cases, method, 1)
    IN  IF op = "ExecuteService" /\ AnswersDefinition(info, method)
        THEN Return("definition", <<>>, <<>>, FALSE, OriginalNames(info.Methods), FALSE)
        ELSE IF op = "IsWorkflow"
        THEN Return("bool", <<>>, <<>>, FALSE, <<>>, k # 0)
        ELSE IF k = 0 THEN NotFound
        ELSE IF op = "GetInputType"
        THEN Return("input", <<>>, cases[k].InputType, TRUE, <<>>, FALSE)
        ELSE Return("call", cases[k].OriginalName, cases[k].InputType,
                    cases[k].IsInputPointer, <<>>, FALSE)

----------------------------------------------------------------------------
(* Service Orchestrator *)

\* The name of the k-th entry of the services folder, in directory order:
\* "s-a", "s-b", ...
EntryName(k) == <<115, 45, 96 + k>>

\* An entry of the services folder: absent, a plain file, or a directory
\* with its source files in walk order.
NoEntry == [kind |-> "absent", files |-> <<>>]
PlainEntry == [kind |-> "file", files |-> <<>>]
DirEntry(files) == [kind |-> "dir", files |-> files]

Slots == 1..MaxServices

\* The project: whether go.mod names a module, whether the services folder
\* exists and its entries, and the record files extractStructs meets
\* before (early) and after (late) the output directory in its walk.
Project(modOK, hasServices, entries, early, late) ==
    [modOK |-> modOK, hasServices |-> hasServices, entries |-> entries,
     early |-> early, late |-> late]

\* The module name getModuleName reads: "app".
ModuleName == <<97, 112, 112>>

\* The output directory with nothing in it, before os.MkdirAll made it.
NoDisk ==
    [exists |-> FALSE,
     adapter |-> [k \in Slots |-> Absent],
     definition |-> [k \in Slots |-> Absent]]

\* The generated files extractStructs parses in the output directory: each
\* adapter declares "type <ServiceStructName> struct {}".
RECURSIVE OutputRecordFiles(_, _)
OutputRecordFiles(d, k) ==
    IF k > MaxServices THEN <<>>
    ELSE (IF d.adapter[k] = Absent THEN <<>>
          ELSE <<RecordFile(TRUE,
                    <<RecordDecl(d.adapter[k][1].info.ServiceStructName, <<>>)>>)>>)
         \o OutputRecordFiles(d, k + 1)

\* extractStructs(appPath)
ExtractStructs(t, d) ==
    WalkRecords(NoRecords, t.early \o OutputRecordFiles(d, 1) \o t.late)

\* What goimports -w leaves of the output directory when it rewrites the
\* adapters of the slots in done in their normal form.
Normalized(d, done) ==
    [d EXCEPT !.adapter =
        [k \in Slots |-> IF d.adapter[k] = Absent \/ k \notin done THEN d.adapter[k]
                         ELSE FileOf(d.adapter[k][1].info, TRUE)]]

\* goimports -w over the output directory, when it succeeds: every adapter
\* is rewritten in its normal form.
RunGoImports(d) == Normalized(d, Slots)

\* The adapters a goimports that fails may have rewritten before it
\* returns: none when it does not start, any of them when it fails on a
\* file of the directory, which it reports before it goes on to the next.
Rewritten(d) == SUBSET {k \in Slots : d.adapter[k] # Absent}

\* The outcomes of the file system calls of generateService: all succeed,
\* or os.MkdirAll fails, or the adapter's os.WriteFile fails, or
\* writeServiceDefinition fails.
Faults == {"none", "mkdir", "adapter", "definition"}

\* The return values of a run.
NoResult == [kind |-> "none", err |-> NoError]
Ok == [kind |-> "ok", err |-> NoError]
Failed(err) == [kind |-> "error", err |-> err]
Panicked(err) == [kind |-> "panic", err |-> err]

\* The locals of a run: the record map, the index of the entry at hand,
\* the output directory as the run found it, and whether it repeats a run
\* that met no fault, on the project that run left.
NoRun == [structDefs |-> NoRecords, i |-> 0, before |-> NoDisk, repeat |-> FALSE]
NoLast == [slot |-> 0, methods |-> <<>>, imports |-> <<>>, err |-> NoError,
           wrote |-> FALSE]
NoReply == [op |-> "", name |-> <<>>, slot |-> 0, out |-> NotFound]

\* The production flag the caller passes, and what is remembered of the
\* runs so far: whether one finished, whether the project is unchanged
\* since the last one finished without meeting a fault of the file system
\* or of goimports, and whether the last one repeated such a run and met no
\* fault either.
NewLog(prod) == [prod |-> prod, ran |-> FALSE, clean |-> FALSE, repeated |-> FALSE]

\* A run returns res, having met a fault or not: its result is kept, and
\* the log notes it.
Finish(res, faulty, repeat) ==
    /\ pc' = "idle"
    /\ result' = res
    /\ run' = NoRun
    /\ log' = [log EXCEPT !.ran = TRUE, !.clean = ~faulty,
                          !.repeated = repeat /\ ~faulty]

\* A generateService that would not return early on an empty method list.
WriteServiceUnguarded(k, parsed, info, prod, d, fault) ==
    IF parsed.err # NoError
    THEN [kind |-> IF parsed.err.kind = "panic" THEN "panic" ELSE "error",
          err |-> parsed.err, disk |-> d, parsed |-> parsed, reached |-> FALSE]
    ELSE [kind |-> IF fault = "none" THEN "ok" ELSE "error",
          err |-> IF fault = "none" THEN NoError ELSE Error(fault, <<>>),
          disk |-> [exists |-> d.exists \/ fault # "mkdir",
                    adapter |-> [j \in Slots |->
                        IF j = k /\ fault \in {"none", "definition"}
                        THEN AdapterFile(info) ELSE d.adapter[j]],
                    definition |-> [j \in Slots |->
                        IF j = k /\ fault = "none"
                        THEN DefinitionFile(info) ELSE d.definition[j]]],
          parsed |-> parsed, reached |-> TRUE]

\* A generateService that would remove the artifacts of a service without
\* methods.
WriteServiceClearing(k, parsed, info, prod, d, fault) ==
    IF parsed.err = NoError /\ parsed.methods = <<>>
    THEN [kind |-> "ok", err |-> NoError,
          disk |-> [d EXCEPT !.adapter[k] = Absent, !.definition[k] = Absent],
          parsed |-> parsed, reached |-> FALSE]
    ELSE WriteServiceUnguarded(k, parsed, info, prod, d, fault)

\* generateService after parseDir returned parsed, for the directory in
\* slot k, on output directory d, with the file system behaving as fault
\* says.  kind is "ok" (return nil), "error" (return err) or "panic";
\* reached tells whether the call got as far as the file system.
WriteService(k, parsed, info, prod, d, fault) ==
    IF parsed.err # NoError
    THEN [kind |-> IF parsed.err.kind = "panic" THEN "panic" ELSE "error",
          err |-> parsed.err, disk |-> d, parsed |-> parsed, reached |-> FALSE]
    ELSE IF parsed.methods = <<>>
    THEN [kind |-> "ok", err |-> NoError, disk |-> d, parsed |-> parsed,
          reached |-> FALSE]
    ELSE [kind |-> IF fault = "none" THEN "ok" ELSE "error",
          err |-> CASE fault = "none" -> NoError
                    [] fault = "mkdir" -> Error("mkdir", <<>>)
                    [] fault = "adapter" -> Error("write", <<>>)
                    [] fault = "definition" -> Error("definition", <<>>),
          disk |-> [exists |-> d.exists \/ fault # "mkdir",
                    adapter |-> [j \in Slots |->
                        IF j = k /\ fault \in {"none", "definition"}
                        THEN WriteFile(d.adapter[j], AdapterFile(info))
                        ELSE d.adapter[j]],
                    definition |-> [j \in Slots |->
                        IF j = k /\ fault = "none"
                        THEN WriteFile(d.definition[j], DefinitionFile(info))
                        ELSE d.definition[j]]],
          parsed |-> parsed, reached |-> TRUE]

\* The ServiceInfo generateService builds from what parseDir returned.
InfoOf(k, parsed, prod) ==
    ServiceInfo(ModuleName, EntryName(k), parsed.methods, parsed.imports, prod)

\* generateService: parseDir, then the rest.
Generate(k, parsed, prod, d, fault) ==
    WriteService(k, parsed, InfoOf(k, parsed, prod), prod, d, fault)

GenerateService(k, files, structDefs, prod, d, fault) ==
    Generate(k, ParseDir(files, structDefs), prod, d, fault)

\* A loop that would go on after an error and end on a crash only.
AbortsOnPanicOnly(kind) == kind = "panic"

\* if err != nil { ...; return err } after generateService: whether the
\* loop of GenerateServices ends there.
Aborts(kind) == kind # "ok"

----------------------------------------------------------------------------
(* Actions *)

\* A GenerateServices that would not enter the loop over the entries.
SkipLoop(hasServices) == "imports"

\* os.Stat(servicesFolder): the loop over the entries when the folder
\* exists, the clean-up at once when it does not.
AfterStat(hasServices) == IF hasServices THEN "loop" ELSE "imports"

\* GenerateServices(appPath, prod), up to the loop over the entries:
\* getModuleName, extractStructs, os.Stat of the services folder.
Begin ==
    /\ pc = "idle"
    /\ reply' = NoReply
    /\ last' = NoLast
    /\ UNCHANGED <<tree, disk>>
    /\ IF ~tree.modOK
       THEN Finish(Failed(Error("module", <<>>)), FALSE, log.clean)
       ELSE /\ pc' = AfterStat(tree.hasServices)
            /\ run' = [structDefs |-> ExtractStructs(tree, disk), i |-> 1,
                       before |-> disk, repeat |-> log.clean]
            /\ UNCHANGED <<result, log>>

\* A run started from the command line (main without -w).
StartRun == Begin /\ UNCHANGED watch

\* One turn of "for i, entry := range entries": generateService when the
\* entry is a directory.
ProcessEntry(fault) ==
    /\ pc = "loop"
    /\ run.i <= MaxServices
    /\ UNCHANGED <<tree, reply, watch>>
    /\ LET e == tree.entries[run.i]
       IN  IF e.kind # "dir"
           THEN /\ fault = "none"
                /\ run' = [run EXCEPT !.i = @ + 1]
                /\ UNCHANGED <<disk, pc, last, result, log>>
           ELSE \E g \in {GenerateService(run.i, e.files, run.structDefs, log.prod,
                                          disk, fault)} :
                    /\ g.reached \/ fault = "none"
                    /\ disk' = g.disk
                    /\ last' = [slot |-> run.i, methods |-> g.parsed.methods,
                                imports |-> g.parsed.imports, err |-> g.parsed.err,
                                wrote |-> g.reached /\ g.kind = "ok"]
                    /\ IF ~Aborts(g.kind)
                       THEN /\ run' = [run EXCEPT !.i = @ + 1]
                            /\ UNCHANGED <<pc, result, log>>
                       ELSE Finish(IF g.kind = "panic" THEN Panicked(g.err)
                                   ELSE Failed(g.err), fault # "none", run.repeat)

\* The loop ends: "Finished generating code for services".
LoopDone ==
    /\ pc = "loop"
    /\ run.i > MaxServices
    /\ pc' = "imports"
    /\ UNCHANGED <<tree, disk, run, last, result, log, reply, watch>>

\* The end of GenerateServices: goimports over the output directory when it
\* exists, which succeeds or fails.
CleanUp(toolOK) ==
    /\ pc = "imports"
    /\ UNCHANGED <<tree, last, reply, watch>>
    /\ IF ~disk.exists
       THEN /\ toolOK
            /\ disk' = disk
            /\ Finish(Ok, FALSE, run.repeat)
       ELSE IF toolOK
       THEN /\ disk' = RunGoImports(disk)
            /\ Finish(Ok, FALSE, run.repeat)
       ELSE /\ \E done \in Rewritten(disk) : disk' = Normalized(disk, done)
            /\ Finish(Failed(Error("goimports", <<>>)), TRUE, run.repeat)

\* The watcher before it is started: no event pending, its loop not
\* running, no call of onChange in progress, nothing logged.
NoWatch == [queue |-> <<>>, at |-> "off", active |-> 0, logged |-> FALSE]

\* The events fsnotify delivers under the services folder: a write to a Go
\* file that go build accepts, a write to a Go file that it rejects, and
\* any other event.
Events == {"change", "broken", "other"}

\* case event, ok := <-watcher.Events: the loop is at its select.
Selects(at) == at = "select"

\* fsnotify has an event for the loop, while the loop is anywhere.
Arrive(ev) ==
    /\ watch.at \notin {"off", "dead"}
    /\ Len(watch.queue) < MaxEvents
    /\ watch' = [watch EXCEPT !.queue = Append(@, ev)]
    /\ UNCHANGED <<tree, disk, pc, run, last, result, log, reply>>

\* The loop takes the first pending event; a write to a Go file that
\* compiles calls onChange, any other event goes back to the select.
Take ==
    /\ Selects(watch.at)
    /\ watch.queue # <<>>
    /\ watch' = [watch EXCEPT !.queue = Tail(@),
                              !.at = IF Head(watch.queue) = "change" THEN "called"
                                     ELSE "select",
                              !.active = IF Head(watch.queue) = "change" THEN @ + 1
                                         ELSE @]
    /\ UNCHANGED <<tree, disk, pc, run, last, result, log, reply>>

\* onChange calls generate, which calls GenerateServices(appPath, true).
CallGenerate ==
    /\ watch.at = "called"
    /\ Begin
    /\ watch' = [watch EXCEPT !.at = "running", !.logged = FALSE]

\* GenerateServices has returned: onChange logs the error, if any, and
\* returns to the loop.  A run that crashed has ended the process.
Returns ==
    /\ watch.at = "running"
    /\ pc = "idle"
    /\ watch' = IF result.kind = "panic"
                THEN [watch EXCEPT !.at = "dead", !.active = @ - 1]
                ELSE [watch EXCEPT !.at = "select", !.active = @ - 1,
                                   !.logged = result.kind = "error"]
    /\ UNCHANGED <<tree, disk, pc, run, last, result, log, reply>>

\* The names a caller passes to a generated adapter.
CallNames ==
    {NameDT, Namedt, NameUnderscoreD, DefinitionName, DefinitionNameMixed, <<84>>}

Operations == {"GetInputType", "ExecuteService", "ExecuteWorkflow", "IsWorkflow"}

\* A call of operation op with method name on the adapter of slot k, in a
\* program built with it.  A compiler that refuses duplicate cases builds no
\* program from an adapter that has them.  The adapter keeps no state, so
\* one call stands for any number of them.
Call(k, op, name, strict) ==
    /\ pc = "idle"
    /\ reply = NoReply
    /\ disk.adapter[k] # Absent
    /\ ~(strict /\ DuplicateCase(disk.adapter[k][1].info))
    /\ reply' = [op |-> op, name |-> name, slot |-> k,
                 out |-> Dispatch(disk.adapter[k][1].info, op, name)]
    /\ UNCHANGED <<tree, disk, pc, run, last, result, log, watch>>

----------------------------------------------------------------------------
(* The project and its edits *)

\* The record files of the project: model/types.go declares Req with a
\* named and an embedded field, and Resp.
ModelFile ==
    RecordFile(TRUE,
        <<RecordDecl(IdReq, <<RecordField(<<"ID">>, PlainString),
                              RecordField(<<>>, PlainBase)>>),
          RecordDecl(IdResp, <<RecordField(<<"OK">>, PlainBool)>>)>>)

GoFile(decls) == SourceFile("go", TRUE, <<"fmt">>, decls)

ServiceDT == FuncDecl(NameDT, FALSE, <<Fld(1, ServiceContext), Fld(1, ReqPtr)>>,
                      <<Fld(0, RespVal)>>)
WorkflowD == FuncDecl(NameUnderscoreD, FALSE,
                      <<Fld(0, WorkflowContext), Fld(0, ReqVal)>>,
                      <<Fld(0, RespPtr), Fld(0, PlainError)>>)
InvalidDT == FuncDecl(NameDT, FALSE, <<>>, <<Fld(0, RespVal)>>)
Lowerdt == FuncDecl(Namedt, FALSE, <<>>, <<>>)

\* A directory with two methods.
GoodDir == DirEntry(<<GoFile(<<ServiceDT, WorkflowD>>)>>)

\* A directory without a method: a test file that is not read, and a source
\* file with an unexported function.
ZeroDir ==
    DirEntry(<<SourceFile("test", TRUE, <<"testing">>, <<InvalidDT>>),
               GoFile(<<Lowerdt>>)>>)

\* A directory with a file go/parser rejects.
BadDir == DirEntry(<<SourceFile("go", FALSE, <<>>, <<>>)>>)

\* A directory with a function that declares no result.
NoResultDir ==
    DirEntry(<<GoFile(<<FuncDecl(NameDT, FALSE,
                                 <<Fld(1, ServiceContext), Fld(1, ReqPtr)>>, <<>>)>>)>>)

StockEntries == {NoEntry, GoodDir, ZeroDir, BadDir, NoResultDir}

\* An edit of the services folder between two runs: entry k is created,
\* removed or replaced.
SetEntry(k, e) ==
    /\ pc = "idle"
    /\ tree.hasServices
    /\ log.ran
    /\ e # tree.entries[k]
    /\ tree' = [tree EXCEPT !.entries[k] = e]
    /\ log' = [log EXCEPT !.clean = FALSE]
    /\ reply' = NoReply
    /\ last' = NoLast
    /\ UNCHANGED <<disk, pc, run, result, watch>>

\* A declaration is appended to the one source file of the first service,
\* before the generator has run.
AddDecl(d) ==
    /\ pc = "idle"
    /\ ~log.ran
    /\ tree.entries[1].kind = "dir"
    /\ Len(tree.entries[1].files[1].decls) < MaxDecls
    /\ tree' = [tree EXCEPT !.entries[1].files[1].decls = Append(@, d)]
    /\ UNCHANGED <<disk, pc, run, last, result, log, reply, watch>>

----------------------------------------------------------------------------
(* Specifications *)

Fresh(prod) ==
    /\ disk = NoDisk
    /\ pc = "idle"
    /\ run = NoRun
    /\ last = NoLast
    /\ result = NoResult
    /\ log = NewLog(prod)
    /\ reply = NoReply
    /\ watch = NoWatch

\* The projects the orchestrator specifications start from: without a
\* manifest, without a services folder, or with a services folder of stock
\* entries.
StockProject ==
    \E modOK \in BOOLEAN, hasServices \in BOOLEAN :
    \E entries \in [Slots -> StockEntries] :
        /\ hasServices \/ \A k \in Slots : entries[k] = NoEntry
        /\ modOK \/ ~hasServices
        /\ tree = Project(modOK, hasServices, entries, <<>>, <<ModelFile>>)

\* The program of main.go, which passes prod = true, on a file system
\* that takes every write: runs, separated by edits of the services
\* folder; goimports may fail.
Init == Fresh(TRUE) /\ StockProject

Next ==
    \/ StartRun
    \/ ProcessEntry("none")
    \/ LoopDone
    \/ \E toolOK \in BOOLEAN : CleanUp(toolOK)
    \/ \E k \in Slots, e \in StockEntries : SetEntry(k, e)

Spec == Init /\ [][Next]_vars

\* The same program on a project that does not change, with a file system
\* that may refuse a write.
NextFaults ==
    \/ StartRun
    \/ \E fault \in Faults : ProcessEntry(fault)
    \/ LoopDone
    \/ \E toolOK \in BOOLEAN : CleanUp(toolOK)

SpecFaults == Init /\ [][NextFaults]_vars

\* One service directory with one source file, built declaration by
\* declaration from FuncDecls, then generated once and called.
InitGen ==
    /\ \E prod \in BOOLEAN : Fresh(prod)
    /\ tree = Project(TRUE, TRUE,
                      [k \in Slots |-> IF k = 1 THEN DirEntry(<<GoFile(<<>>)>>)
                                       ELSE PlainEntry],
                      <<>>, <<ModelFile>>)

NextGen ==
    \/ \E d \in FuncDecls : AddDecl(d)
    \/ ~log.ran /\ StartRun
    \/ ProcessEntry("none")
    \/ LoopDone
    \/ CleanUp(TRUE)
    \/ \E k \in Slots, op \in Operations, name \in CallNames, strict \in BOOLEAN :
          Call(k, op, name, strict)

SpecGen == InitGen /\ [][NextGen]_vars

\* The import lists of the files of SpecWalk: none, one path, two paths in
\* either order, one path twice.
ImportLists ==
    {<<>>, <<"fmt">>, <<"a", "fmt">>, <<"fmt", "a">>, <<"a", "a">>, <<"b", "a">>}

\* The files a service directory holds before its last one: source files,
\* test files and files that are no Go files, without declarations.
WalkFiles ==
    { SourceFile(kind, TRUE, imports, <<>>) :
        kind \in {"go", "test", "other"}, imports \in ImportLists }

\* The file lists of at most MaxFiles such files.
WalkLists == UNION { [1..n -> WalkFiles] : n \in 0..MaxFiles }

\* One service directory whose walk meets the files of such a list and then
\* a source file with one service method, generated once.
InitWalk ==
    /\ Fresh(TRUE)
    /\ \E files \in WalkLists :
          tree = Project(TRUE, TRUE,
                         [k \in Slots |-> IF k = 1
                                          THEN DirEntry(files \o <<GoFile(<<ServiceDT>>)>>)
                                          ELSE NoEntry],
                         <<>>, <<ModelFile>>)

NextWalk ==
    \/ ~log.ran /\ StartRun
    \/ ProcessEntry("none")
    \/ LoopDone
    \/ CleanUp(TRUE)

SpecWalk == InitWalk /\ [][NextWalk]_vars

\* The record declarations SpecRecords draws: Req with a named and an
\* embedded field, Req with two names sharing a type and a field of a
\* qualified pointer type, Req without fields, and Resp.
RecordDecls ==
    { RecordDecl(IdReq, <<RecordField(<<"ID">>, PlainString),
                          RecordField(<<>>, PlainBase)>>),
      RecordDecl(IdReq, <<RecordField(<<"A", "B">>, PlainInt),
                          RecordField(<<"In">>, ReqPtr)>>),
      RecordDecl(IdReq, <<>>),
      RecordDecl(IdResp, <<RecordField(<<"OK">>, PlainBool)>>) }

\* The record files: one go/parser rejects, and those with at most
\* MaxRecords declarations.
RecordFiles ==
    { RecordFile(FALSE, <<>>) }
    \cup { RecordFile(TRUE, decls) :
             decls \in UNION { [1..n -> RecordDecls] : n \in 0..MaxRecords } }

\* A project with one record file that the walk of extractStructs meets
\* before the output directory and one that it meets after it, and one
\* service; the generator runs again and again.
InitRecords ==
    /\ Fresh(TRUE)
    /\ \E first \in RecordFiles, second \in RecordFiles :
          tree = Project(TRUE, TRUE,
                         [k \in Slots |-> IF k = 1 THEN GoodDir ELSE NoEntry],
                         <<first>>, <<second>>)

NextRecords ==
    \/ StartRun
    \/ ProcessEntry("none")
    \/ LoopDone
    \/ CleanUp(TRUE)

SpecRecords == InitRecords /\ [][NextRecords]_vars

\* The program of main.go with -w, on a project with one service that
\* generates, fails to parse or crashes the parser: the watcher is started
\* and events arrive at any time.
InitWatch ==
    /\ disk = NoDisk /\ pc = "idle" /\ run = NoRun /\ last = NoLast
    /\ result = NoResult /\ log = NewLog(TRUE) /\ reply = NoReply
    /\ watch = [NoWatch EXCEPT !.at = "select"]
    /\ \E e \in {GoodDir, BadDir, NoResultDir} :
          tree = Project(TRUE, TRUE,
                         [k \in Slots |-> IF k = 1 THEN e ELSE NoEntry],
                         <<>>, <<ModelFile>>)

NextWatch ==
    \/ \E ev \in Events : Arrive(ev)
    \/ Take
    \/ CallGenerate
    \/ ProcessEntry("none")
    \/ LoopDone
    \/ \E toolOK \in BOOLEAN : CleanUp(toolOK)
    \/ Returns

SpecWatch == InitWatch /\ [][NextWatch]_vars

----------------------------------------------------------------------------
(* Claims about the Convention Parser, under SpecGen *)

\* The declarations of the source file of the first service.
DeclsOfFirst == tree.entries[1].files[1].decls

\* parseDir has returned for the first service.
ParsedFirst == last.slot = 1

\* A receiver-less function whose name does not start with a lower-case
\* letter.
Candidate(fn) == ~fn.recv /\ ~StartsLowerLetter(fn.name)

\* The context kind the first parameter of a function stands for, "" when
\* the function has fewer than two parameters or another first parameter.
ContextOf(fn) ==
    IF NumParams(fn.params) < 2 THEN ""
    ELSE IF ParamType(fn.params, 1) = ServiceContext THEN "Service"
    ELSE IF ParamType(fn.params, 1) = WorkflowContext THEN "Workflow"
    ELSE ""

\* C1: every record parseDir produces has exactly one of IsService and
\* IsWorkflow, the one the first parameter of its function stands for, and
\* a function that starts with a lower-case letter is never validated: when
\* parseDir fails on a function's parameters, the function its error names
\* is a receiver-less function that does not start with a lower-case letter.
C1_Classification ==
    ParsedFirst =>
        /\ \A j \in 1..Len(last.methods) :
              LET m == last.methods[j]
              IN  /\ m.IsService # m.IsWorkflow
                  /\ \E d \in 1..Len(DeclsOfFirst) :
                        /\ Candidate(DeclsOfFirst[d])
                        /\ DeclsOfFirst[d].name = m.OriginalName
                        /\ ContextOf(DeclsOfFirst[d]) =
                              (IF m.IsService THEN "Service" ELSE "Workflow")
        /\ last.err.kind \in {"not enough parameters", "first parameter"} =>
              \E d \in 1..Len(DeclsOfFirst) :
                  /\ Candidate(DeclsOfFirst[d])
                  /\ DeclsOfFirst[d].name = last.err.fn

\* The declarations parseDir does not pass over, in order.
RECURSIVE Examined(_)
Examined(decls) ==
    IF decls = <<>> THEN <<>>
    ELSE (IF Skipped(Head(decls)) THEN <<>> ELSE <<Head(decls)>>)
         \o Examined(Tail(decls))

\* A pointer to a qualified type, or a bare qualified type.
Qualified(t) == t.sel

\* C2: every retained method keeps its original name, has the lower-cased
\* name as its normalized name, has the qualified name of the type of its
\* function's second parameter as input type, with the pointer flag set
\* exactly when that parameter is a pointer, and has output type and flag
\* from the first declared result in the same way.
C2_MethodFields ==
    ParsedFirst /\ last.err = NoError =>
        \A j \in 1..Len(last.methods) :
            LET m == last.methods[j]
            IN  /\ m.Name = ToLower(m.OriginalName)
                /\ \E d \in 1..Len(DeclsOfFirst) :
                      LET fn == DeclsOfFirst[d]
                          in == ParamType(fn.params, 2)
                          out == fn.results[1].type
                      IN  /\ fn.name = m.OriginalName
                          /\ NumParams(fn.params) >= 2 /\ fn.results # <<>>
                          /\ Qualified(in) /\ Qualified(out)
                          /\ m.InputType = in.pkg \o <<46>> \o in.name
                          /\ m.IsInputPointer = in.star
                          /\ m.OutputType = out.pkg \o <<46>> \o out.name
                          /\ m.IsOutputPointer = out.star

\* The functions of a list whose second parameter-list entry and first
\* result are both qualified types or pointers to them.
RECURSIVE Matching(_)
Matching(decls) ==
    IF decls = <<>> THEN <<>>
    ELSE LET fn == Head(decls)
             fits == /\ fn.results # <<>>
                     /\ Qualified(fn.params[2].type)
                     /\ Qualified(fn.results[1].type)
         IN  (IF fits THEN <<fn.name>> ELSE <<>>) \o Matching(Tail(decls))

\* C3: when every function parseDir examines has a valid context as first
\* parameter, parseDir neither fails nor crashes, whatever the shapes of the
\* second parameter and of the results (no result included): the methods
\* are those of the functions whose input and output both match, in order,
\* and each has a non-empty input and output type name.
C3_ShapeMismatchIsSilent ==
    ParsedFirst /\ (\A d \in 1..Len(DeclsOfFirst) :
                       Skipped(DeclsOfFirst[d])
                           \/ ValidateFunctionParams(DeclsOfFirst[d]).err = NoError) =>
        /\ last.err = NoError
        /\ result.kind # "panic"
        /\ OriginalNames(last.methods) = Matching(Examined(DeclsOfFirst))
        /\ \A j \in 1..Len(last.methods) :
              last.methods[j].InputType # <<>> /\ last.methods[j].OutputType # <<>>

\* The type name of a qualified name "pkg.Type": what follows the dot (46).
RECURSIVE TypeNameOf(_)
TypeNameOf(q) ==
    IF q = <<>> THEN <<>>
    ELSE IF Head(q) = 46 THEN Tail(q)
    ELSE TypeNameOf(Tail(q))

\* C9: the input schema of every retained method is the field list the
\* Record Extractor recorded for the record type its input type names, and
\* its output schema the one recorded for its output type; the schema is
\* empty only when no such record was extracted.
C9_SchemaCrossReference ==
    ParsedFirst /\ pc = "loop" =>
        \A j \in 1..Len(last.methods) :
            LET m == last.methods[j]
            IN  /\ m.InputSchema = MapGet(run.structDefs, TypeNameOf(m.InputType))
                /\ m.OutputSchema = MapGet(run.structDefs, TypeNameOf(m.OutputType))

----------------------------------------------------------------------------
(* Claims about the Service Orchestrator, under Spec and SpecFaults *)

\* generateService returns for the directory of the entry at hand.
GeneratesEntry == pc = "loop" /\ last'.slot = run.i

\* The artifacts of every service but k are what they were.
OthersKept(k) ==
    \A j \in Slots \ {k} :
        disk'.adapter[j] = disk.adapter[j] /\ disk'.definition[j] = disk.definition[j]

\* C4: when the parser finds no method in a service directory and reports
\* no error, generateService writes no adapter and no definition, creates
\* no output directory and returns no error, and the loop goes on with the
\* next entry.
C4_NoMethodsNoArtifacts ==
    [][GeneratesEntry /\ last'.err = NoError /\ last'.methods = <<>> =>
          /\ disk' = disk
          /\ pc' = "loop" /\ run'.i = run.i + 1
          /\ result' = result]_vars

C4_Witness ==
    /\ pc = "loop" /\ last.slot = 1 /\ run.i = 2
    /\ tree.entries[1] = ZeroDir
    /\ last.err = NoError /\ last.methods = <<>>
    /\ disk = NoDisk

\* C5: the entries are processed one at a time in directory order; a
\* service that fails ends the run with its error, so that no later entry
\* is parsed or written, and every step leaves the artifacts of the other
\* services as they are; a service that does not fail lets the loop go on
\* with the next entry.
C5_FirstFailureAborts ==
    [][GeneratesEntry =>
          /\ OthersKept(run.i)
          /\ \/ /\ pc' = "loop" /\ run'.i = run.i + 1 /\ result' = result
                /\ last'.err = NoError
                /\ last'.methods # <<>> => last'.wrote
             \/ /\ pc' = "idle" /\ run' = NoRun
                /\ result'.kind \in {"error", "panic"}
                /\ result'.err # NoError
                /\ last'.err # NoError => result'.err = last'.err
                /\ last'.err.kind # "panic" => result'.kind = "error"
                /\ ~last'.wrote]_vars

C5_Witness ==
    /\ pc = "idle" /\ result.kind = "error" /\ last.slot = 2
    /\ result.err = last.err /\ last.err.kind = "syntax"
    /\ disk.adapter[1] # Absent /\ disk.definition[1] # Absent
    /\ disk.adapter[2] = Absent

\* A run ends that repeats, on the project and output directory it left,
\* a run that met no fault, and meets none itself.
RepeatEnds == pc' = "idle" /\ tree' = tree /\ log'.repeated /\ (pc # "idle" \/ ~tree.modOK)

\* C8: a run that repeats the previous run on an unchanged project leaves
\* every adapter and definition exactly as it found them, and returns what
\* the previous run returned.
C8_Idempotence ==
    [][RepeatEnds =>
          /\ disk' = (IF pc = "idle" THEN disk ELSE run.before)
          /\ result' = result]_vars

C8_Witness ==
    /\ pc = "idle" /\ log.repeated /\ result = Ok
    /\ \E k \in Slots : disk.adapter[k] # Absent /\ disk.definition[k] # Absent

----------------------------------------------------------------------------
(* Claims about the generated adapter, under SpecGen *)

\* A call has been answered.
Called(op) == reply.op = op

\* The normalized names of the methods that are cases of an operation.
CaseNames(op) ==
    { last.methods[j].Name : j \in
        { i \in 1..Len(last.methods) :
            \/ op = "GetInputType"
            \/ op = "ExecuteService" /\ last.methods[i].IsService
            \/ op \in {"ExecuteWorkflow", "IsWorkflow"} /\ last.methods[i].IsWorkflow } }

\* The call asks a production adapter for its definition.
Introspection ==
    Called("ExecuteService") /\ log.prod /\ ToLower(reply.name) = DefinitionName

\* C6 as stated: a name whose lower-cased form is not a case of the
\* operation called is answered with "method not found", and IsWorkflow
\* answers false for it.
C6_UnknownNameAsStated ==
    reply.op # "" /\ ToLower(reply.name) \notin CaseNames(reply.op) =>
        IF Called("IsWorkflow")
        THEN reply.out.kind = "bool" /\ ~reply.out.value
        ELSE reply.out = NotFound

\* C6: a name whose lower-cased form is not a case of the operation called
\* is answered with "method not found", and IsWorkflow answers false for
\* it, except that ExecuteService of a production adapter answers the
\* introspection name with the definition.
C6_UnknownName ==
    reply.op # "" /\ ToLower(reply.name) \notin CaseNames(reply.op) /\ ~Introspection =>
        IF Called("IsWorkflow")
        THEN reply.out.kind = "bool" /\ ~reply.out.value
        ELSE reply.out = NotFound

C6_Witness ==
    /\ Called("ExecuteService") /\ reply.out = NotFound
    /\ ToLower(reply.name) \in CaseNames("ExecuteWorkflow")
    /\ ToLower(reply.name) \notin CaseNames("ExecuteService")

\* C7: ExecuteService called with the introspection name, in any letter
\* case, returns on a production adapter the original names of all the
\* methods of the service in declaration order, and "method not found" on
\* any other adapter.
C7_Definition ==
    Called("ExecuteService") /\ ToLower(reply.name) = DefinitionName =>
        IF log.prod
        THEN /\ reply.out.kind = "definition"
             /\ reply.out.names = Matching(Examined(DeclsOfFirst))
             /\ Len(reply.out.names) = Len(last.methods)
             /\ \A j \in 1..Len(last.methods) :
                   reply.out.names[j] = last.methods[j].OriginalName
        ELSE reply.out = NotFound

C7_Witness ==
    /\ Called("ExecuteService") /\ reply.name = DefinitionNameMixed /\ log.prod
    /\ reply.out.kind = "definition"
    /\ reply.out.names = <<NameDT, NameUnderscoreD>>
    /\ last.methods[1].IsService /\ last.methods[2].IsWorkflow

\* The places in the method list of the cases of the operation called that
\* carry the normalized name called.
Places ==
    { j \in 1..Len(last.methods) :
        /\ last.methods[j].Name = ToLower(reply.name)
        /\ last.methods[j].Name \in CaseNames(reply.op)
        /\ \/ Called("GetInputType")
           \/ Called("ExecuteService") /\ last.methods[j].IsService
           \/ Called("ExecuteWorkflow") /\ last.methods[j].IsWorkflow }

Least(S) == CHOOSE x \in S : \A y \in S : x <= y
Greatest(S) == CHOOSE x \in S : \A y \in S : x >= y

\* Every matching function has its record: none is dropped for its name.
BothKept ==
    ParsedFirst /\ last.err = NoError =>
        Len(last.methods) = Len(Matching(Examined(DeclsOfFirst)))

\* C10 as stated: functions whose names collide after lower-casing all keep
\* their records, and a call with the shared name goes to the one declared
\* last.
C10_LastWinsAsStated ==
    /\ BothKept
    /\ reply.out.kind = "call" =>
          reply.out.fn = last.methods[Greatest(Places)].OriginalName

\* C10: functions whose names collide after lower-casing all keep their
\* records, and a call with the shared name goes, in every adapter that is
\* built, to the one declared first among the cases of the operation.
C10_FirstWins ==
    /\ BothKept
    /\ reply.out.kind = "call" =>
          /\ reply.out.fn = last.methods[Least(Places)].OriginalName
          /\ reply.out.pointer = last.methods[Least(Places)].IsInputPointer

C10_Witness ==
    /\ Called("ExecuteService") /\ reply.name = NameDT
    /\ Len(last.methods) = 2
    /\ last.methods[1].OriginalName = NameDT /\ last.methods[2].OriginalName = NameDt
    /\ last.methods[1].IsService /\ last.methods[2].IsService
    /\ reply.out.kind = "call" /\ reply.out.fn = NameDT

----------------------------------------------------------------------------
(* Claims about the imports of a service, under SpecWalk *)

\* The import paths of the source files of a list that are not test files,
\* in walk order.
RECURSIVE ImportsInWalk(_)
ImportsInWalk(files) ==
    IF files = <<>> THEN <<>>
    ELSE (IF Head(files).kind = "go" THEN Head(files).imports ELSE <<>>)
         \o ImportsInWalk(Tail(files))

\* The place of the first occurrence of a path in a list that holds it.
FirstPlace(list, x) == Least({i \in 1..Len(list) : list[i] = x})

\* C11: the import list parseDir returns holds every import path of the
\* non-test source files of the service, nothing else, each once, in the
\* order of the first occurrences in the walk.
C11_ImportsUnique ==
    ParsedFirst /\ last.err = NoError =>
        LET all == ImportsInWalk(tree.entries[1].files)
            got == last.imports
        IN  /\ {got[i] : i \in 1..Len(got)} = {all[i] : i \in 1..Len(all)}
            /\ \A i, j \in 1..Len(got) : i < j =>
                  /\ got[i] # got[j]
                  /\ FirstPlace(all, got[i]) < FirstPlace(all, got[j])

C11_Witness ==
    /\ ParsedFirst /\ last.err = NoError
    /\ Len(tree.entries[1].files) = 3
    /\ tree.entries[1].files[1] = SourceFile("go", TRUE, <<"b", "a">>, <<>>)
    /\ tree.entries[1].files[2] = SourceFile("test", TRUE, <<"a", "fmt">>, <<>>)
    /\ last.imports = <<"b", "a", "fmt">>
    /\ disk.adapter[1] # Absent /\ disk.adapter[1][1].info.Imports = last.imports

----------------------------------------------------------------------------
(* Claims about the Record Extractor, under SpecRecords *)

\* The record declarations of the files a walk parses, in walk order.
RECURSIVE DeclsInWalk(_)
DeclsInWalk(files) ==
    IF files = <<>> THEN <<>>
    ELSE (IF Head(files).parsable THEN Head(files).decls ELSE <<>>)
         \o DeclsInWalk(Tail(files))

\* The text of a type expression: Type, *Type, pkg.Type or *pkg.Type.
TypeText(t) ==
    (IF t.star THEN <<42>> ELSE <<>>)
        \o (IF t.sel THEN t.pkg \o <<46>> ELSE <<>>) \o t.name

\* Every name of every field of a record that has a name, in order, with
\* the text of its type.
RECURSIVE DirectFields(_)
DirectFields(fields) ==
    IF fields = <<>> THEN <<>>
    ELSE [i \in 1..Len(Head(fields).names) |->
             [Name |-> Head(fields).names[i], Type |-> TypeText(Head(fields).type)]]
         \o DirectFields(Tail(fields))

\* extractStructs has returned, and the loop has not ended the run.
Extracted == pc = "loop"

\* C12: the map extractStructs returns has an entry for every record type
\* declared in a file it could parse and for no other name; the entry
\* lists the named fields of the declaration visited last under that name,
\* every name once, in order, with the text of its type, and no embedded
\* field; a file that does not parse is passed over.
C12_RecordSchemas ==
    Extracted =>
        LET decls == DeclsInWalk(tree.early \o OutputRecordFiles(run.before, 1)
                                    \o tree.late)
            names == {decls[i].name : i \in 1..Len(decls)}
        IN  /\ DOMAIN run.structDefs = names
            /\ \A n \in names :
                  LET at == Greatest({i \in 1..Len(decls) : decls[i].name = n})
                  IN  run.structDefs[n] = DirectFields(decls[at].fields)

----------------------------------------------------------------------------
(* Claims about import normalization, under Spec *)

\* GenerateServices is at its clean-up.
CleansUp == pc = "imports"

\* The clean-up comes after the loop over the entries, when there is one.
AfterAllEntries == tree.hasServices => run.i > MaxServices

\* The run returns the failure of goimports.
ToolFailed == result'.err.kind = "goimports"

\* C13 as stated: the clean-up comes once in a run, after every entry has
\* been processed; goimports is not called when there is no output
\* directory; when it fails the run returns its error and every artifact
\* is exactly as the run wrote it.
C13_CleanUpAsStated ==
    [][CleansUp =>
          /\ AfterAllEntries
          /\ pc' = "idle"
          /\ ~disk.exists => disk' = disk /\ result' = Ok
          /\ ToolFailed => disk.exists /\ result'.kind = "error" /\ disk' = disk]_vars

\* C13: the clean-up comes once in a run, after every entry has been
\* processed; goimports is not called when there is no output directory;
\* when it fails the run returns its error, no artifact is removed, every
\* definition is as written and every adapter is as written or as goimports
\* rewrote it.
C13_CleanUp ==
    [][CleansUp =>
          /\ AfterAllEntries
          /\ pc' = "idle"
          /\ ~disk.exists => disk' = disk /\ result' = Ok
          /\ ToolFailed =>
                /\ disk.exists /\ disk'.exists /\ result'.kind = "error"
                /\ disk'.definition = disk.definition
                /\ \A k \in Slots :
                      \/ disk'.adapter[k] = disk.adapter[k]
                      \/ /\ disk.adapter[k] # Absent
                         /\ disk'.adapter[k] = FileOf(disk.adapter[k][1].info, TRUE)]_vars

C13_Witness ==
    /\ pc = "idle" /\ result = Failed(Error("goimports", <<>>))
    /\ disk.adapter[1] # Absent /\ disk.adapter[2] # Absent
    /\ disk.adapter[1][1].formatted /\ ~disk.adapter[2][1].formatted
    /\ disk.definition[1] # Absent /\ disk.definition[2] # Absent

----------------------------------------------------------------------------
(* Claims about watch mode, under SpecWatch *)

\* The loop takes an event off the queue.
TakesEvent == Len(watch'.queue) < Len(watch.queue)

\* A run begins, or would begin were none in progress.
CallsOnChange == watch'.active > watch.active

\* The run in progress ends without success: GenerateServices returns an
\* error, or crashes.
RunFails == watch.at = "running" /\ watch'.at # "running" /\ result.kind # "ok"

\* C14: in watch mode at most one call of onChange, and so at most one
\* run, is in progress at any time; the loop takes an event only when no
\* run is in progress, so that an event that arrives during a run is
\* handled after the run has returned; and a run that fails is logged and
\* the loop goes back to its select with the pending events.
C14_OneRunAtATime ==
    [][/\ watch'.active <= 1
       /\ pc' # "idle" => watch'.at = "running" /\ watch'.active = 1
       /\ TakesEvent => pc = "idle" /\ watch.active = 0
       /\ CallsOnChange => pc = "idle" /\ watch.active = 0
       /\ RunFails =>
             /\ watch'.at = "select" /\ watch'.logged
             /\ watch'.active = 0 /\ watch'.queue = watch.queue]_vars

----------------------------------------------------------------------------
(* Claims about the four operations of an adapter, under SpecGen *)

\* The places in the method list of the normalized name called.
Named == {j \in 1..Len(last.methods) : last.methods[j].Name = ToLower(reply.name)}

\* C15: when the normalized names of the methods are pairwise distinct, a
\* call that names a method in any letter case is answered from that
\* method's record: GetInputType allocates a pointer to its input type;
\* of ExecuteService and ExecuteWorkflow the one of its kind calls the
\* original function, with the pointer received when the input is a pointer
\* and with what it points to otherwise, and the other answers "method not
\* found"; IsWorkflow tells whether it is a workflow.
C15_OneMethodList ==
    reply.op # "" /\ Cardinality(Named) = 1 =>
        LET m == last.methods[CHOOSE j \in Named : TRUE]
            calls == /\ reply.out.kind = "call"
                     /\ reply.out.fn = m.OriginalName
                     /\ reply.out.type = m.InputType
                     /\ reply.out.pointer = m.IsInputPointer
        IN  /\ m.IsService # m.IsWorkflow
            /\ Called("GetInputType") =>
                  /\ reply.out.kind = "input"
                  /\ reply.out.type = m.InputType /\ reply.out.pointer
            /\ Called("ExecuteService") =>
                  IF m.IsService THEN calls ELSE reply.out = NotFound
            /\ Called("ExecuteWorkflow") =>
                  IF m.IsWorkflow THEN calls ELSE reply.out = NotFound
            /\ Called("IsWorkflow") =>
                  reply.out.kind = "bool" /\ reply.out.value = m.IsWorkflow

C15_Witness ==
    /\ Called("ExecuteWorkflow") /\ reply.name = NameDT
    /\ Len(last.methods) = 2
    /\ last.methods[1].OriginalName = NameUnderscoreD
    /\ last.methods[2].OriginalName = NameDt
    /\ last.methods[2].IsWorkflow /\ last.methods[2].IsInputPointer
    /\ reply.out.kind = "call" /\ reply.out.fn = NameDt /\ reply.out.pointer

----------------------------------------------------------------------------
(* Claims about artifacts a run does not write, under Spec *)

\* A run ends.
RunEnds == pc # "idle" /\ pc' = "idle"

\* The entry of slot k is no directory, or parseDir finds no method in it
\* and reports no error.
YieldsNothing(k) ==
    \/ tree.entries[k].kind # "dir"
    \/ LET parsed == ParseDir(tree.entries[k].files, run.structDefs)
       IN  parsed.err = NoError /\ parsed.methods = <<>>

\* C16 as stated: when a run ends, the adapter and the definition that an
\* earlier run left for a service that now yields no method, or that is no
\* longer there, are exactly what they were when the run began.
C16_StaleArtifactsAsStated ==
    [][RunEnds =>
          \A k \in Slots :
              run.before.adapter[k] # Absent /\ YieldsNothing(k) =>
                  /\ disk'.adapter[k] = run.before.adapter[k]
                  /\ disk'.definition[k] = run.before.definition[k]]_vars

\* C16: no step removes an artifact; and when a run ends, the definition
\* that an earlier run left for a service that now yields no method, or
\* that is no longer there, is exactly what it was when the run began, and
\* its adapter is what it was or what goimports made of it at the end of
\* the run.
C16_StaleArtifacts ==
    [][/\ \A k \in Slots :
             /\ disk.adapter[k] # Absent => disk'.adapter[k] # Absent
             /\ disk.definition[k] # Absent => disk'.definition[k] # Absent
       /\ RunEnds =>
             \A k \in Slots :
                 run.before.adapter[k] # Absent /\ YieldsNothing(k) =>
                     /\ disk'.definition[k] = run.before.definition[k]
                     /\ \/ disk'.adapter[k] = run.before.adapter[k]
                        \/ disk'.adapter[k] =
                              FileOf(run.before.adapter[k][1].info, TRUE)]_vars

C16_Witness ==
    /\ pc = "idle" /\ log.clean /\ result = Ok
    /\ tree.entries[1] = ZeroDir /\ tree.entries[2] = NoEntry
    /\ disk.adapter[1] # Absent /\ disk.adapter[1][1].info.Methods # <<>>
    /\ disk.adapter[2] # Absent /\ disk.definition[2] # Absent

====
